---- MODULE Spec2Model ----
(***************************************************************************)
(* Model of cmd/diode/bns.go: the "bns" command of the diode client.       *)
(* One behaviour is one invocation of bnsHandler: the configuration is     *)
(* fixed at the start, the handler runs app.Start, GetBlockPeak, the four  *)
(* operation handlers in order and, after a submission, wait().  Every     *)
(* call to the RPC client is one step; its answer is chosen by the         *)
(* environment.  Strings are sequences of one-character strings.           *)
(***************************************************************************)
EXTENDS Integers, Sequences, FiniteSets, TLC

VARIABLES cfg, pc, outcome, retErr, ran, startErr, peak, bnsName, bnsAddr, nonce,
          resolved, sendRes, cond, i, bn, calls, waitEntered, sentTx,
          lastRead, confirmedBy, heightChanged, evals, condResult,
          vName, vResult,
          procPc, procOutcome, procI, procSends, heightMoved, ledgerAddr, pool, rejected

\* what wait() has seen: the answer that confirmed, whether the inner loop saw the
\* height differ, the number of condition() calls and the last one's result
waitHist == <<confirmedBy, heightChanged, evals, condResult>>

\* two invocations of the command racing for one name (RaceSpec): each one's
\* position, outcome, loop counter of wait() and number of SendTransaction calls,
\* whether the height has moved since it read bn, and the ledger: the address the
\* name resolves to, the transactions pending, and the senders it has rejected
race == <<procPc, procOutcome, procI, procSends, heightMoved, ledgerAddr, pool, rejected>>

\* the state of the validation runs (ValidSpec) and of the racing runs (RaceSpec)
aux == <<vName, vResult, race>>

vars == <<cfg, pc, outcome, retErr, ran, startErr, peak, bnsName, bnsAddr, nonce,
          resolved, sendRes, cond, i, bn, calls, waitEntered, sentTx,
          lastRead, waitHist, aux>>

(***************************************************************************)
(* Bounds of the environment's answers.                                    *)
(***************************************************************************)
MaxHeight == 1
\* the account nonce is only carried into the transaction: no branch reads it
MaxNonce == 0
MaxAddr == 2
MaxTestLen == 33

(***************************************************************************)
(* Program constants.                                                      *)
(***************************************************************************)
MinNameLen == 7
MaxNameLen == 32
WaitBudget == 6000
ZeroAddr == 0
ClientAddr == 1

Addresses == 0..MaxAddr
Heights == 0..MaxHeight
Nonces == 0..MaxNonce

(***************************************************************************)
(* Strings.                                                                *)
(***************************************************************************)
UpperChars == <<"A","B","C","D","E","F","G","H","I","J","K","L","M",
                "N","O","P","Q","R","S","T","U","V","W","X","Y","Z">>
LowerChars == <<"a","b","c","d","e","f","g","h","i","j","k","l","m",
                "n","o","p","q","r","s","t","u","v","w","x","y","z">>
DigitChars == <<"0","1","2","3","4","5","6","7","8","9">>
HexChars == <<"0","1","2","3","4","5","6","7","8","9","a","b","c","d","e","f">>

Range(s) == {s[k] : k \in 1..Len(s)}

IndexOf(s, c) == CHOOSE k \in 1..Len(s) : s[k] = c

\* Characters outside ASCII, each written as its code point: the Kelvin sign,
\* whose lower case is the ASCII letter k, and E acute in both cases.
KelvinSign == "U+212A"
UpperEAcute == "U+00C9"
LowerEAcute == "U+00E9"
NonAsciiUpper == <<KelvinSign, UpperEAcute>>
NonAsciiLower == <<"k", LowerEAcute>>

\* the number of bytes of a character in UTF-8
Utf8Len(c) ==
    IF c = KelvinSign THEN 3
    ELSE IF c \in {UpperEAcute, LowerEAcute} THEN 2
    ELSE 1

\* len(s) of a Go string: its length in bytes
RECURSIVE ByteLen(_)
ByteLen(s) == IF s = <<>> THEN 0 ELSE Utf8Len(Head(s)) + ByteLen(Tail(s))

\* unicode.ToLower, on ASCII and on the characters above
LowerChar(c) ==
    IF c \in Range(UpperChars) THEN LowerChars[IndexOf(UpperChars, c)]
    ELSE IF c \in Range(NonAsciiUpper) THEN NonAsciiLower[IndexOf(NonAsciiUpper, c)]
    ELSE c

ToLower(s) == [k \in 1..Len(s) |-> LowerChar(s[k])]

\* strings.Split(s, sep) for a one-character separator: Split("", "=") is [""]
RECURSIVE SplitAcc(_, _, _, _, _)
SplitAcc(s, sep, k, cur, acc) ==
    IF k > Len(s) THEN Append(acc, cur)
    ELSE IF s[k] = sep THEN SplitAcc(s, sep, k + 1, <<>>, Append(acc, cur))
    ELSE SplitAcc(s, sep, k + 1, Append(cur, s[k]), acc)

Split(s, sep) == SplitAcc(s, sep, 1, <<>>, <<>>)

\* bnsPattern = ^[0-9a-z-]+$
BnsChars == Range(DigitChars) \cup Range(LowerChars) \cup {"-"}

\* a slip in the pattern: the hyphen left out of the class
bnsPatternNoHyphen(s) ==
    Len(s) >= 1 /\ \A k \in 1..Len(s) : s[k] \in Range(DigitChars) \cup Range(LowerChars)

bnsPattern(s) == Len(s) >= 1 /\ \A k \in 1..Len(s) : s[k] \in BnsChars

\* a slip in the length check: one character too few still passes
isValidBNSOffByOne(name) ==
    IF ByteLen(name) < MinNameLen - 1 \/ ByteLen(name) > MaxNameLen THEN FALSE
    ELSE bnsPattern(name)

isValidBNS(name) ==
    IF ByteLen(name) < MinNameLen \/ ByteLen(name) > MaxNameLen THEN FALSE
    ELSE bnsPattern(name)

\* util.DecodeAddress, at a reduced width: "0x" and one hex digit
DecodeAddress(s) ==
    IF Len(s) = 3 /\ s[1] = "0" /\ s[2] = "x" /\ s[3] \in Range(HexChars)
    THEN [addr |-> IndexOf(HexChars, s[3]) - 1, err |-> FALSE]
    ELSE [addr |-> ZeroAddr, err |-> TRUE]

(***************************************************************************)
(* Answers of the RPC client.                                              *)
(***************************************************************************)
\* ResolveBNS / ResolveBNSOwner: an address, or the zero value with an error
ResolverResponses ==
    {[addr |-> a, err |-> FALSE] : a \in Addresses} \cup {[addr |-> ZeroAddr, err |-> TRUE]}

\* SendTransaction: (res, err)
SubmitResponses == [ok : BOOLEAN, err : BOOLEAN]

(***************************************************************************)
(* The configuration: the four flags of the command.                       *)
(***************************************************************************)
NameOk == <<"h","e","l","l","o","-","w">>
NameUpper == <<"H","e","l","l","o","-","W">>
NameShort == <<"s","h","o","r","t","n">>
NameShortnm == <<"s","h","o","r","t","n","m">>
NameBadChar == <<"h","e","l","l","o","_","w">>
NameKelvin == <<"h","e","l","l","o","-",KelvinSign>>
Eq == <<"=">>
AddrText(d) == <<"0", "x", d>>
BadAddrText == <<"0", "x", "z">>

RegisterDefault == NameOk \o Eq \o AddrText("2")
UnregisterDefault == NameOk
TransferDefault == NameOk \o Eq \o AddrText("2")
TransferNoEq == NameOk
LookupDefault == NameOk

RegisterInputs ==
    {<<>>, RegisterDefault, NameOk, NameUpper \o Eq \o AddrText("2"),
     NameShort \o Eq \o AddrText("2"), NameBadChar \o Eq \o AddrText("2"),
     NameOk \o Eq \o BadAddrText, NameShortnm \o Eq \o AddrText("1"),
     NameKelvin \o Eq \o AddrText("2")}
UnregisterInputs == {<<>>, UnregisterDefault, NameUpper, NameShort}
TransferInputs ==
    {<<>>, TransferDefault, TransferNoEq, NameOk \o Eq \o AddrText("1"),
     NameShort \o Eq \o AddrText("2"), NameOk \o Eq \o BadAddrText,
     NameOk \o Eq \o AddrText("2") \o Eq \o AddrText("2")}
LookupInputs == {<<>>, LookupDefault, NameUpper, NameShort}

BasicConfigs ==
    [register : {<<>>, RegisterDefault}, unregister : {<<>>, UnregisterDefault},
     transfer : {<<>>, TransferDefault}, lookup : {<<>>, LookupDefault}]

NoFlags == [register |-> <<>>, unregister |-> <<>>, transfer |-> <<>>, lookup |-> <<>>]

\* every combination of empty and set flags, and every single request
Configs ==
    BasicConfigs
    \cup {[NoFlags EXCEPT !.register = s] : s \in RegisterInputs}
    \cup {[NoFlags EXCEPT !.unregister = s] : s \in UnregisterInputs}
    \cup {[NoFlags EXCEPT !.transfer = s] : s \in TransferInputs}
    \cup {[NoFlags EXCEPT !.lookup = s] : s \in LookupInputs}
    \cup {[NoFlags EXCEPT !.transfer = TransferNoEq, !.lookup = LookupDefault]}

(***************************************************************************)
(* Decisions of the handlers.                                              *)
(***************************************************************************)
\* a slip in the peak check: only a negative height is taken as unknown
PeakUnknownNegative(h) == h < 0

\* bnsHandler: if bn == 0
PeakUnknown(h) == h = 0

\* a slip in the binding check: no comparison with the requested address
RegisterPrecheckBlind(rerr, obnsAddr, addr) == "Proceed"

\* handleRegister: the check of the current binding
RegisterPrecheck(rerr, obnsAddr, addr) ==
    IF ~rerr /\ obnsAddr = addr THEN "AlreadySatisfied" ELSE "Proceed"

\* handleTransfer: the check of the current owner
TransferPrecheck(rerr, owner, newOwner, caller) ==
    IF ~rerr
    THEN IF owner = newOwner THEN "AlreadySatisfied"
         ELSE IF owner # caller THEN "Conflict"
         ELSE "Proceed"
    ELSE "Proceed"

\* a slip in the owner check: the free name is not told from the caller's own
UnregisterPrecheckNoFree(owner, caller) ==
    IF owner # ZeroAddr /\ owner # caller THEN "Conflict" ELSE "Proceed"

\* handleUnregister: the check of the current owner (the read's error is dropped)
UnregisterPrecheck(owner, caller) ==
    IF owner = ZeroAddr THEN "AlreadyFree"
    ELSE IF owner # caller THEN "Conflict"
    ELSE "Proceed"

\* handleRegister: what follows SendTransaction
RegisterSubmit(ok, err) ==
    IF err THEN [accepted |-> FALSE, retErr |-> TRUE]
    ELSE IF ~ok THEN [accepted |-> FALSE, retErr |-> FALSE]
    ELSE [accepted |-> TRUE, retErr |-> FALSE]

\* handleTransfer: what follows SendTransaction
TransferSubmit(ok, err) ==
    LET err2 == err \/ ~ok
    IN [accepted |-> ~err2, retErr |-> err2]

\* handleUnregister: what follows SendTransaction
UnregisterSubmit(ok, err) ==
    LET err2 == err \/ ~ok
    IN [accepted |-> ~err2, retErr |-> err2]

\* the three closures handed to wait()
WaitCondition(c, r, target) ==
    CASE c = "addrIs" -> ~r.err /\ r.addr = target
      [] c = "ownerIs" -> ~r.err /\ r.addr = target
      [] c = "ownerFree" -> r.addr = ZeroAddr
      [] OTHER -> FALSE

(***************************************************************************)
(* State.                                                                  *)
(***************************************************************************)
NoCalls == [start |-> 0, peak |-> 0, nonce |-> 0, resolve |-> 0, owner |-> 0]

NoAnswer == [addr |-> ZeroAddr, err |-> FALSE]

HandlerInit(c) ==
    /\ cfg = c
    /\ pc = "start"
    /\ outcome = "None"
    /\ retErr = FALSE
    /\ ran = {}
    /\ startErr = FALSE
    /\ peak = 0
    /\ bnsName = <<>>
    /\ bnsAddr = ZeroAddr
    /\ nonce = 0
    /\ resolved = NoAnswer
    /\ sendRes = [ok |-> FALSE, err |-> FALSE]
    /\ cond = "none"
    /\ i = 0
    /\ bn = 0
    /\ calls = NoCalls
    /\ waitEntered = FALSE
    /\ sentTx = <<>>
    /\ lastRead = "none"
    /\ confirmedBy = NoAnswer
    /\ heightChanged = FALSE
    /\ evals = 0
    /\ condResult = FALSE

\* the two racing invocations; invocation p runs as the account with address p
Procs == {1, 2}

RaceIdle ==
    /\ procPc = [p \in Procs |-> "idle"]
    /\ procOutcome = [p \in Procs |-> "None"]
    /\ procI = [p \in Procs |-> 0]
    /\ procSends = [p \in Procs |-> 0]
    /\ heightMoved = [p \in Procs |-> FALSE]
    /\ ledgerAddr = ZeroAddr
    /\ pool = {}
    /\ rejected = {}

Init ==
    /\ \E c \in Configs : HandlerInit(c)
    /\ vName = <<>>
    /\ vResult = "none"
    /\ RaceIdle

Finish(o, e) == pc' = "done" /\ outcome' = o /\ retErr' = e

Goto(p) == pc' = p /\ UNCHANGED <<outcome, retErr>>

\* a call on app or on the client (LastValid apart): counted, and remembered as
\* the last one made
Called(what) == calls' = [calls EXCEPT ![what] = @ + 1] /\ lastRead' = what

\* wait(client, condition) is entered
EnterWait(c) ==
    /\ pc' = "w_top"
    /\ cond' = c
    /\ i' = 0
    /\ waitEntered' = TRUE
    /\ UNCHANGED <<outcome, retErr>>

NoWait == UNCHANGED <<cond, i, waitEntered>>

Tx(call) == [nonce |-> nonce, call |-> call, name |-> bnsName, addr |-> bnsAddr]

(***************************************************************************)
(* bnsHandler                                                              *)
(***************************************************************************)
AppStart ==
    /\ pc = "start"
    /\ \E e \in BOOLEAN :
         /\ startErr' = e
         /\ IF e THEN Finish("StartError", TRUE) ELSE Goto("peak")
    /\ Called("start")
    /\ UNCHANGED <<aux, waitHist, cfg, ran, peak, bnsName, bnsAddr, nonce, resolved, sendRes, cond, i, bn,
                   waitEntered, sentTx>>

GetBlockPeak ==
    /\ pc = "peak"
    /\ \E h \in Heights :
         /\ peak' = h
         /\ IF PeakUnknown(h) THEN Finish("NoBlockPeak", FALSE) ELSE Goto("register")
    /\ Called("peak")
    /\ UNCHANGED <<aux, waitHist, cfg, ran, startErr, bnsName, bnsAddr, nonce, resolved, sendRes, cond, i, bn,
                   waitEntered, sentTx>>

UsageError ==
    /\ pc = "usage"
    /\ Finish("UsageError", FALSE)
    /\ UNCHANGED <<aux, waitHist, lastRead, cfg, startErr, peak, ran, bnsName, bnsAddr, nonce, resolved, sendRes, cond, i, bn,
                   calls, waitEntered, sentTx>>

(***************************************************************************)
(* handleRegister                                                          *)
(***************************************************************************)
RegisterEntry ==
    /\ pc = "register"
    /\ \E cerr \in BOOLEAN :
         LET applies == Len(cfg.register) # 0
             registerPair == Split(cfg.register, "=")
             name == ToLower(registerPair[1])
         IN /\ ran' = IF applies THEN ran \cup {"register"} ELSE ran
            /\ bnsName' = IF applies /\ ~cerr THEN name ELSE bnsName
            /\ CASE ~applies -> Goto("unregister")
                 [] applies /\ cerr -> Finish("ContractError", TRUE)
                 [] applies /\ ~cerr /\ ~isValidBNS(name) -> Finish("InvalidName", FALSE)
                 [] OTHER -> Goto("reg_nonce")
    /\ UNCHANGED <<aux, waitHist, lastRead, cfg, startErr, peak, bnsAddr, nonce, resolved, sendRes, cond, i, bn, calls,
                   waitEntered, sentTx>>

RegisterNonce ==
    /\ pc = "reg_nonce"
    /\ \E n \in Nonces : nonce' = n
    /\ Called("nonce")
    /\ LET registerPair == Split(cfg.register, "=")
           dec == IF Len(registerPair) > 1 THEN DecodeAddress(registerPair[2])
                  ELSE [addr |-> ClientAddr, err |-> FALSE]
       IN IF dec.err
          THEN Finish("InvalidAddress", TRUE) /\ UNCHANGED bnsAddr
          ELSE Goto("reg_resolve") /\ bnsAddr' = dec.addr
    /\ UNCHANGED <<aux, waitHist, cfg, startErr, peak, ran, bnsName, resolved, sendRes, cond, i, bn, waitEntered, sentTx>>

RegisterResolve ==
    /\ pc = "reg_resolve"
    /\ \E r \in ResolverResponses :
         /\ resolved' = r
         /\ IF RegisterPrecheck(r.err, r.addr, bnsAddr) = "AlreadySatisfied"
            THEN Finish("AlreadySatisfied", FALSE)
            ELSE Goto("reg_send")
    /\ Called("resolve")
    /\ UNCHANGED <<aux, waitHist, cfg, startErr, peak, ran, bnsName, bnsAddr, nonce, sendRes, cond, i, bn,
                   waitEntered, sentTx>>

\* a slip in the submission: a refused transaction is sent a second time
RegisterSendRetry ==
    /\ pc = "reg_send"
    /\ sentTx' = Append(sentTx, Tx("register"))
    /\ \E s \in SubmitResponses :
         /\ sendRes' = s
         /\ LET after == RegisterSubmit(s.ok, s.err)
            IN IF after.accepted
               THEN EnterWait("addrIs")
               ELSE IF Len(sentTx) = 0
               THEN Goto("reg_send") /\ NoWait
               ELSE Finish("SubmitFailed", after.retErr) /\ NoWait
    /\ UNCHANGED <<aux, waitHist, lastRead, cfg, startErr, peak, ran, bnsName, bnsAddr, nonce, resolved, bn, calls>>

RegisterSend ==
    /\ pc = "reg_send"
    /\ sentTx' = Append(sentTx, Tx("register"))
    /\ \E s \in SubmitResponses :
         /\ sendRes' = s
         /\ LET after == RegisterSubmit(s.ok, s.err)
            IN IF after.accepted
               THEN EnterWait("addrIs")
               ELSE Finish("SubmitFailed", after.retErr) /\ NoWait
    /\ UNCHANGED <<aux, waitHist, lastRead, cfg, startErr, peak, ran, bnsName, bnsAddr, nonce, resolved, bn, calls>>

(***************************************************************************)
(* handleUnregister                                                        *)
(***************************************************************************)
UnregisterEntry ==
    /\ pc = "unregister"
    /\ \E cerr \in BOOLEAN :
         LET applies == Len(cfg.unregister) # 0
             name == ToLower(cfg.unregister)
         IN /\ ran' = IF applies THEN ran \cup {"unregister"} ELSE ran
            /\ bnsName' = IF applies /\ ~cerr THEN name ELSE bnsName
            /\ CASE ~applies -> Goto("transfer")
                 [] applies /\ cerr -> Finish("ContractError", TRUE)
                 [] applies /\ ~cerr /\ ~isValidBNS(name) -> Finish("InvalidName", FALSE)
                 [] OTHER -> Goto("un_nonce")
    /\ UNCHANGED <<aux, waitHist, lastRead, cfg, startErr, peak, bnsAddr, nonce, resolved, sendRes, cond, i, bn, calls,
                   waitEntered, sentTx>>

UnregisterNonce ==
    /\ pc = "un_nonce"
    /\ \E n \in Nonces : nonce' = n
    /\ Called("nonce")
    /\ Goto("un_resolve")
    /\ UNCHANGED <<aux, waitHist, cfg, startErr, peak, ran, bnsName, bnsAddr, resolved, sendRes, cond, i, bn,
                   waitEntered, sentTx>>

UnregisterResolve ==
    /\ pc = "un_resolve"
    /\ \E r \in ResolverResponses :
         /\ resolved' = r
         /\ LET check == UnregisterPrecheck(r.addr, ClientAddr)
            IN IF check = "Proceed" THEN Goto("un_send") ELSE Finish(check, TRUE)
    /\ Called("owner")
    /\ UNCHANGED <<aux, waitHist, cfg, startErr, peak, ran, bnsName, bnsAddr, nonce, sendRes, cond, i, bn,
                   waitEntered, sentTx>>

UnregisterSend ==
    /\ pc = "un_send"
    /\ sentTx' = Append(sentTx, Tx("unregister"))
    /\ \E s \in SubmitResponses :
         /\ sendRes' = s
         /\ LET after == UnregisterSubmit(s.ok, s.err)
            IN IF after.accepted
               THEN EnterWait("ownerFree")
               ELSE Finish("SubmitFailed", after.retErr) /\ NoWait
    /\ UNCHANGED <<aux, waitHist, lastRead, cfg, startErr, peak, ran, bnsName, bnsAddr, nonce, resolved, bn, calls>>

(***************************************************************************)
(* handleTransfer                                                          *)
(***************************************************************************)
TransferEntry ==
    /\ pc = "transfer"
    /\ \E cerr \in BOOLEAN :
         LET transferPair == Split(cfg.transfer, "=")
             applies == Len(transferPair) = 2
             name == ToLower(transferPair[1])
         IN /\ ran' = IF applies THEN ran \cup {"transfer"} ELSE ran
            /\ bnsName' = IF applies /\ ~cerr THEN name ELSE bnsName
            /\ CASE ~applies -> Goto("lookup")
                 [] applies /\ cerr -> Finish("ContractError", TRUE)
                 [] applies /\ ~cerr /\ ~isValidBNS(name) -> Finish("InvalidName", FALSE)
                 [] OTHER -> Goto("tr_nonce")
    /\ UNCHANGED <<aux, waitHist, lastRead, cfg, startErr, peak, bnsAddr, nonce, resolved, sendRes, cond, i, bn, calls,
                   waitEntered, sentTx>>

TransferNonce ==
    /\ pc = "tr_nonce"
    /\ \E n \in Nonces : nonce' = n
    /\ Called("nonce")
    /\ LET transferPair == Split(cfg.transfer, "=")
           dec == DecodeAddress(transferPair[2])
       IN IF dec.err
          THEN Finish("InvalidAddress", TRUE) /\ UNCHANGED bnsAddr
          ELSE Goto("tr_resolve") /\ bnsAddr' = dec.addr
    /\ UNCHANGED <<aux, waitHist, cfg, startErr, peak, ran, bnsName, resolved, sendRes, cond, i, bn, waitEntered, sentTx>>

TransferResolve ==
    /\ pc = "tr_resolve"
    /\ \E r \in ResolverResponses :
         /\ resolved' = r
         /\ LET check == TransferPrecheck(r.err, r.addr, bnsAddr, ClientAddr)
            IN IF check = "Proceed" THEN Goto("tr_send") ELSE Finish(check, TRUE)
    /\ Called("owner")
    /\ UNCHANGED <<aux, waitHist, cfg, startErr, peak, ran, bnsName, bnsAddr, nonce, sendRes, cond, i, bn,
                   waitEntered, sentTx>>

TransferSend ==
    /\ pc = "tr_send"
    /\ sentTx' = Append(sentTx, Tx("transfer"))
    /\ \E s \in SubmitResponses :
         /\ sendRes' = s
         /\ LET after == TransferSubmit(s.ok, s.err)
            IN IF after.accepted
               THEN EnterWait("ownerIs")
               ELSE Finish("SubmitFailed", after.retErr) /\ NoWait
    /\ UNCHANGED <<aux, waitHist, lastRead, cfg, startErr, peak, ran, bnsName, bnsAddr, nonce, resolved, bn, calls>>

(***************************************************************************)
(* handleLookup                                                            *)
(***************************************************************************)
LookupEntry ==
    /\ pc = "lookup"
    /\ LET lookupName == ToLower(cfg.lookup)
           applies == Len(lookupName) # 0
       IN /\ ran' = IF applies THEN ran \cup {"lookup"} ELSE ran
          /\ bnsName' = IF applies THEN lookupName ELSE bnsName
          /\ IF applies THEN Goto("lk_addr") ELSE Goto("usage")
    /\ UNCHANGED <<aux, waitHist, lastRead, cfg, startErr, peak, bnsAddr, nonce, resolved, sendRes, cond, i, bn, calls,
                   waitEntered, sentTx>>

LookupAddr ==
    /\ pc = "lk_addr"
    /\ \E r \in ResolverResponses :
         /\ resolved' = r
         /\ IF r.err THEN Finish("LookupError", TRUE) ELSE Goto("lk_owner")
    /\ Called("resolve")
    /\ UNCHANGED <<aux, waitHist, cfg, startErr, peak, ran, bnsName, bnsAddr, nonce, sendRes, cond, i, bn,
                   waitEntered, sentTx>>

LookupOwner ==
    /\ pc = "lk_owner"
    /\ \E r \in ResolverResponses :
         IF r.err THEN Finish("LookupOwnerError", TRUE) ELSE Finish("LookupDone", FALSE)
    /\ Called("owner")
    /\ UNCHANGED <<aux, waitHist, cfg, startErr, peak, ran, bnsName, bnsAddr, nonce, resolved, sendRes, cond, i, bn,
                   waitEntered, sentTx>>

(***************************************************************************)
(* wait                                                                    *)
(***************************************************************************)
\* one pass of the outer loop: LastValid, then condition()
\* The loop body without its return: a true condition is recorded but the
\* waiter goes on to the inner loop as if it had been false.
WaitIterNoReturn ==
    /\ pc = "w_top"
    /\ i < WaitBudget
    /\ \E h \in Heights : bn' = h
    /\ \E r \in ResolverResponses :
         LET met == WaitCondition(cond, r, bnsAddr)
         IN /\ condResult' = met
            /\ confirmedBy' = IF met THEN r ELSE confirmedBy
            /\ Goto("w_inner")
    /\ evals' = evals + 1
    /\ heightChanged' = FALSE
    /\ Called(IF cond = "addrIs" THEN "resolve" ELSE "owner")
    /\ UNCHANGED <<aux, cfg, startErr, peak, ran, bnsName, bnsAddr, nonce, resolved, sendRes,
                   cond, i, waitEntered, sentTx>>

WaitIter ==
    /\ pc = "w_top"
    /\ i < WaitBudget
    /\ \E h \in Heights : bn' = h
    /\ \E r \in ResolverResponses :
         LET met == WaitCondition(cond, r, bnsAddr)
         IN /\ condResult' = met
            /\ confirmedBy' = IF met THEN r ELSE confirmedBy
            /\ IF met THEN Finish("Confirmed", FALSE) ELSE Goto("w_inner")
    /\ evals' = evals + 1
    /\ heightChanged' = FALSE
    /\ Called(IF cond = "addrIs" THEN "resolve" ELSE "owner")
    /\ UNCHANGED <<aux, cfg, startErr, peak, ran, bnsName, bnsAddr, nonce, resolved, sendRes,
                   cond, i, waitEntered, sentTx>>

\* the loop condition fails: "Giving up to wait for transaction"
WaitTimeout ==
    /\ pc = "w_top"
    /\ ~(i < WaitBudget)
    /\ Finish("TimedOut", FALSE)
    /\ UNCHANGED <<aux, waitHist, lastRead, cfg, startErr, peak, ran, bnsName, bnsAddr, nonce, resolved, sendRes, cond, i, bn,
                   calls, waitEntered, sentTx>>

\* the inner loop: LastValid again, leave when the height differs
\* The inner loop without its gate: it is left after one height read whether
\* or not the height differs from the one read before the evaluation.
WaitInnerUngated ==
    /\ pc = "w_inner"
    /\ \E bn2 \in Heights :
         /\ heightChanged' = (bn # bn2)
         /\ Goto("w_top") /\ i' = i + 1 /\ bn' = 0
    /\ UNCHANGED <<aux, lastRead, confirmedBy, evals, condResult, cfg, startErr, peak, ran, bnsName,
                   bnsAddr, nonce, resolved, sendRes, cond, calls, waitEntered, sentTx>>

WaitInner ==
    /\ pc = "w_inner"
    /\ \E bn2 \in Heights :
         /\ heightChanged' = (bn # bn2)
         /\ IF bn # bn2
            THEN /\ Goto("w_top")
                 /\ i' = i + 1
                 /\ bn' = 0
            ELSE /\ Goto("w_sleep")
                 /\ UNCHANGED <<i, bn>>
    /\ UNCHANGED <<aux, lastRead, confirmedBy, evals, condResult, cfg, startErr, peak, ran, bnsName,
                   bnsAddr, nonce, resolved, sendRes, cond, calls, waitEntered, sentTx>>

\* time.Sleep(100ms)
WaitSleep ==
    /\ pc = "w_sleep"
    /\ Goto("w_inner")
    /\ UNCHANGED <<aux, waitHist, lastRead, cfg, startErr, peak, ran, bnsName, bnsAddr, nonce, resolved, sendRes, cond, i, bn,
                   calls, waitEntered, sentTx>>

Wait == WaitIter \/ WaitTimeout \/ WaitInner \/ WaitSleep

Next ==
    \/ AppStart \/ GetBlockPeak \/ UsageError
    \/ RegisterEntry \/ RegisterNonce \/ RegisterResolve \/ RegisterSend
    \/ UnregisterEntry \/ UnregisterNonce \/ UnregisterResolve \/ UnregisterSend
    \/ TransferEntry \/ TransferNonce \/ TransferResolve \/ TransferSend
    \/ LookupEntry \/ LookupAddr \/ LookupOwner
    \/ Wait

Spec == Init /\ [][Next]_vars

\* the handler's flow is one thread: it takes its next step when it has one
FairSpec == Init /\ [][Next]_vars /\ WF_vars(Next)

(***************************************************************************)
(* isValidBNS on its own: one run validates one name.                      *)
(***************************************************************************)
TestChars ==
    {"a", "m", "z", "0", "5", "9", "-", "A", "Z", "_", "=", " ", ".", "/", ":", "@", "[",
     KelvinSign, UpperEAcute, LowerEAcute}

\* the names of one length that differ from "aaa..." in at most one place
NamesOfLen(n) ==
    {[k \in 1..n |-> IF k = j THEN c ELSE "a"] : j \in 1..n, c \in TestChars}

TestNames == {<<>>} \cup UNION {NamesOfLen(n) : n \in 1..MaxTestLen}

Validate ==
    /\ vResult = "none"
    /\ vResult' = IF isValidBNS(vName) THEN "valid" ELSE "invalid"
    /\ UNCHANGED <<vName, race, waitHist, lastRead, cfg, pc, outcome, retErr, ran, startErr, peak,
                   bnsName, bnsAddr, nonce, resolved, sendRes, cond, i, bn, calls,
                   waitEntered, sentTx>>

ValidInit ==
    /\ HandlerInit(NoFlags)
    /\ vName \in TestNames
    /\ vResult = "none"
    /\ RaceIdle

ValidSpec == ValidInit /\ [][Validate]_vars

(***************************************************************************)
(* Two invocations racing to register the same name.  Invocation p is run  *)
(* by the account with address p as `-register hello-w=0x<p>`; both are    *)
(* past app.Start and GetBlockPeak and take the steps of handleRegister    *)
(* and wait() in any interleaving.  The ledger answers their reads from    *)
(* its state and settles the pending transactions block by block.          *)
(***************************************************************************)
handlerVars == <<cfg, pc, outcome, retErr, ran, startErr, peak, bnsName, bnsAddr, nonce,
                 resolved, sendRes, cond, i, bn, calls, waitEntered, sentTx,
                 lastRead, waitHist, vName, vResult>>

\* ResolveBNS(name) answered by the ledger: an error while the name is unmapped
LedgerResolve == [addr |-> ledgerAddr, err |-> ledgerAddr = ZeroAddr]

\* the BNS contract's Register: the first pending transaction claims a free name,
\* a name already held by another account is not given away
LedgerApply(first) == IF ledgerAddr = ZeroAddr THEN first ELSE ledgerAddr

ProcFinish(p, o) ==
    /\ procPc' = [procPc EXCEPT ![p] = "done"]
    /\ procOutcome' = [procOutcome EXCEPT ![p] = o]

ProcGoto(p, to) ==
    /\ procPc' = [procPc EXCEPT ![p] = to]
    /\ UNCHANGED procOutcome

\* handleRegister up to the decoded address: the contract instance is created
\* (it may fail) and the name is validated
RaceRegisterEntry(p) ==
    /\ procPc[p] = "register"
    /\ \E cerr \in BOOLEAN :
         CASE cerr -> ProcFinish(p, "ContractError")
           [] ~cerr /\ ~isValidBNS(ToLower(NameOk)) -> ProcFinish(p, "InvalidName")
           [] OTHER -> ProcGoto(p, "reg_resolve")
    /\ UNCHANGED <<handlerVars, procI, procSends, heightMoved, ledgerAddr, pool, rejected>>

\* obnsAddr, err = client.ResolveBNS(bnsName) and the already-mapped check
RaceRegisterResolve(p) ==
    /\ procPc[p] = "reg_resolve"
    /\ LET r == LedgerResolve
           check == RegisterPrecheck(r.err, r.addr, p)
       IN IF check = "Proceed" THEN ProcGoto(p, "reg_send") ELSE ProcFinish(p, check)
    /\ UNCHANGED <<handlerVars, procI, procSends, heightMoved, ledgerAddr, pool, rejected>>

\* res, err = client.SendTransaction(ntx); an accepted transaction is pending
RaceRegisterSend(p) ==
    /\ procPc[p] = "reg_send"
    /\ procSends' = [procSends EXCEPT ![p] = @ + 1]
    /\ \E s \in SubmitResponses :
         LET after == RegisterSubmit(s.ok, s.err)
         IN IF after.accepted
            THEN /\ ProcGoto(p, "w_top")
                 /\ pool' = pool \cup {p}
            ELSE /\ ProcFinish(p, "SubmitFailed")
                 /\ UNCHANGED pool
    /\ UNCHANGED <<handlerVars, procI, heightMoved, ledgerAddr, rejected>>

\* wait(): bn, _ := client.LastValid()
RaceWaitRead(p) ==
    /\ procPc[p] = "w_top"
    /\ procI[p] < WaitBudget
    /\ heightMoved' = [heightMoved EXCEPT ![p] = FALSE]
    /\ ProcGoto(p, "w_cond")
    /\ UNCHANGED <<handlerVars, procI, procSends, ledgerAddr, pool, rejected>>

\* wait(): condition() is evaluated, on the ledger as it is by now
RaceWaitIter(p) ==
    /\ procPc[p] = "w_cond"
    /\ IF WaitCondition("addrIs", LedgerResolve, p)
       THEN ProcFinish(p, "Confirmed")
       ELSE ProcGoto(p, "w_inner")
    /\ UNCHANGED <<handlerVars, procI, procSends, heightMoved, ledgerAddr, pool, rejected>>

\* wait(): the loop has run out
RaceWaitTimeout(p) ==
    /\ procPc[p] = "w_top"
    /\ procI[p] >= WaitBudget
    /\ ProcFinish(p, "TimedOut")
    /\ UNCHANGED <<handlerVars, procI, procSends, heightMoved, ledgerAddr, pool, rejected>>

\* wait(): bn2 is read and compared with bn
RaceWaitInner(p) ==
    /\ procPc[p] = "w_inner"
    /\ IF heightMoved[p]
       THEN /\ ProcGoto(p, "w_top")
            /\ procI' = [procI EXCEPT ![p] = @ + 1]
            /\ heightMoved' = [heightMoved EXCEPT ![p] = FALSE]
       ELSE /\ ProcGoto(p, "w_sleep")
            /\ UNCHANGED <<procI, heightMoved>>
    /\ UNCHANGED <<handlerVars, procSends, ledgerAddr, pool, rejected>>

\* wait(): time.Sleep
RaceWaitSleep(p) ==
    /\ procPc[p] = "w_sleep"
    /\ ProcGoto(p, "w_inner")
    /\ UNCHANGED <<handlerVars, procI, procSends, heightMoved, ledgerAddr, pool, rejected>>

\* the ledger closes a block: the height moves for every invocation holding a
\* bn, and the pending transactions are settled, one of them first
LedgerBlock ==
    /\ heightMoved' = [p \in Procs |->
                         IF procPc[p] \in {"w_cond", "w_inner", "w_sleep"} THEN TRUE
                         ELSE heightMoved[p]]
    /\ IF pool = {}
       THEN UNCHANGED <<ledgerAddr, rejected>>
       ELSE \E first \in pool :
              /\ ledgerAddr' = LedgerApply(first)
              /\ rejected' = rejected \cup (pool \ {LedgerApply(first)})
    /\ pool' = {}
    /\ UNCHANGED <<handlerVars, procPc, procOutcome, procI, procSends>>

RaceInit ==
    /\ HandlerInit(NoFlags)
    /\ vName = <<>>
    /\ vResult = "none"
    /\ procPc = [p \in Procs |-> "register"]
    /\ procOutcome = [p \in Procs |-> "None"]
    /\ procI = [p \in Procs |-> 0]
    /\ procSends = [p \in Procs |-> 0]
    /\ heightMoved = [p \in Procs |-> FALSE]
    /\ ledgerAddr = ZeroAddr
    /\ pool = {}
    /\ rejected = {}

RaceStep(p) ==
    \/ RaceRegisterEntry(p) \/ RaceRegisterResolve(p) \/ RaceRegisterSend(p)
    \/ RaceWaitRead(p) \/ RaceWaitIter(p) \/ RaceWaitTimeout(p)
    \/ RaceWaitInner(p) \/ RaceWaitSleep(p)

RaceNext == (\E p \in Procs : RaceStep(p)) \/ LedgerBlock

RaceSpec == RaceInit /\ [][RaceNext]_vars

(***************************************************************************)
(* Properties.                                                             *)
(***************************************************************************)
Sends == Len(sentTx)

AllEmpty == cfg = NoFlags

FirstNonEmpty ==
    IF Len(cfg.register) # 0 THEN "register"
    ELSE IF Len(cfg.unregister) # 0 THEN "unregister"
    ELSE IF Len(cfg.transfer) # 0 THEN "transfer"
    ELSE IF Len(cfg.lookup) # 0 THEN "lookup"
    ELSE "none"

\* the lower-cased name of the request that handler o serves
RequestName(o) ==
    CASE o = "register" -> ToLower(Split(cfg.register, "=")[1])
      [] o = "unregister" -> ToLower(cfg.unregister)
      [] o = "transfer" -> ToLower(Split(cfg.transfer, "=")[1])
      [] o = "lookup" -> ToLower(cfg.lookup)

\* the precondition read of handler o has been made and its answer is in resolved
Prechecked(o) ==
    /\ ran = {o}
    /\ pc \notin {"reg_nonce", "reg_resolve", "un_nonce", "un_resolve", "tr_nonce", "tr_resolve"}
    /\ calls.resolve + calls.owner >= 1

\* C1: a register whose name already resolves, without error, to the requested
\* address ends AlreadySatisfied, having sent no transaction and never waited.
C1_RegisterIdempotent ==
    (Prechecked("register") /\ ~resolved.err /\ resolved.addr = bnsAddr)
        => /\ pc = "done"
           /\ outcome = "AlreadySatisfied"
           /\ Sends = 0
           /\ ~waitEntered

C1_Witness ==
    /\ Prechecked("register")
    /\ ~resolved.err
    /\ resolved.addr = bnsAddr
    /\ bnsAddr # ZeroAddr
    /\ outcome = "AlreadySatisfied"

\* C2: a transfer of a name the caller does not own, whatever the resolver
\* answered (another owner, or an error), ends with a conflict decision (the
\* wrong-owner Conflict, or the already-transferred refusal) and sends nothing.
C2_TransferNotOwnedIsConflict ==
    (Prechecked("transfer") /\ (resolved.err \/ resolved.addr # ClientAddr))
        => /\ Sends = 0
           /\ ~waitEntered
           /\ pc = "done" => outcome \in {"Conflict", "AlreadySatisfied"}

\* C3: an unregister whose resolved owner is the zero address ends with the
\* "already free" conflict, and one whose owner is another account ends with
\* Conflict; neither sends a transaction.
C3_UnregisterFreeOrForeign ==
    Prechecked("unregister")
        => /\ resolved.addr = ZeroAddr
                => pc = "done" /\ outcome = "AlreadyFree" /\ Sends = 0 /\ ~waitEntered
           /\ resolved.addr \notin {ZeroAddr, ClientAddr}
                => pc = "done" /\ outcome = "Conflict" /\ Sends = 0 /\ ~waitEntered

C3_Witness ==
    /\ Prechecked("unregister")
    /\ ~resolved.err
    /\ resolved.addr = ZeroAddr
    /\ outcome = "AlreadyFree"
    /\ retErr

\* C4: once wait() is entered it ends (Confirmed or TimedOut), whatever the
\* heights LastValid reports, as long as the waiter keeps taking its steps.
C4_WaiterTerminates == waitEntered ~> (pc = "done")

\* C5: an invocation sends at most one transaction, and one that entered
\* wait() has sent exactly one.
C5_OneSubmission ==
    /\ Sends <= 1
    /\ waitEntered => Sends = 1

C5_Witness ==
    /\ waitEntered
    /\ pc = "done"
    /\ outcome = "TimedOut"
    /\ Sends = 1

\* C6: after SendTransaction, an answer of false without error and an answer
\* with an error end the handler alike: no wait, submission failed, a non-nil
\* error returned; wait() is entered only after an answer of true without error.
C6_SubmitFalseIsError ==
    Sends >= 1
        => /\ (sendRes.err \/ ~sendRes.ok)
                => ~waitEntered /\ pc = "done" /\ outcome = "SubmitFailed" /\ retErr
           /\ waitEntered => sendRes.ok /\ ~sendRes.err

\* C7: with none of the four flags set the invocation makes no call at all
\* (no start, no block peak, no resolver, no nonce, no transaction) and ends
\* with the usage error.
C7_UsageErrorWithoutNetwork ==
    AllEmpty
        => /\ calls = NoCalls
           /\ Sends = 0
           /\ pc = "done" => outcome = "UsageError"

\* C8: no handler but that of the first non-empty flag (register, unregister,
\* transfer, lookup) ever applies, and an invocation that got past the
\* connectivity checks ends having run exactly that one.
C8_DispatchFirstNonEmpty ==
    /\ ran \subseteq {FirstNonEmpty}
    /\ (pc = "done" /\ ~AllEmpty /\ outcome \notin {"StartError", "NoBlockPeak"})
            => ran = {FirstNonEmpty}

\* C9: when app.Start failed or GetBlockPeak gave 0 the invocation is over with
\* a connectivity error and no handler has run: no resolver read, no nonce
\* read, no transaction, no wait.
C9_ConnectivityFailFast ==
    (startErr \/ (calls.peak >= 1 /\ peak = 0))
        => /\ pc = "done"
           /\ outcome \in {"StartError", "NoBlockPeak"}
           /\ ran = {}
           /\ calls.nonce = 0 /\ calls.resolve = 0 /\ calls.owner = 0
           /\ Sends = 0
           /\ ~waitEntered

C9_Witness ==
    /\ calls.peak = 1
    /\ peak = 0
    /\ ~startErr
    /\ outcome = "NoBlockPeak"
    /\ ~AllEmpty

\* C10: a handler serving a request whose lower-cased name is not valid makes
\* no ResolveBNS, ResolveBNSOwner or GetAccountNonce call and sends nothing.
C10_InvalidNameNoNetwork ==
    \A o \in ran :
        ~isValidBNS(RequestName(o))
            => /\ calls.resolve = 0 /\ calls.owner = 0 /\ calls.nonce = 0
               /\ Sends = 0

\* the predicate of the specification, written out: 7 to 32 characters, each a
\* digit, a lowercase ASCII letter or a hyphen
RefChars ==
    {"0", "1", "2", "3", "4", "5", "6", "7", "8", "9", "-",
     "a", "b", "c", "d", "e", "f", "g", "h", "i", "j", "k", "l", "m",
     "n", "o", "p", "q", "r", "s", "t", "u", "v", "w", "x", "y", "z"}

RefValid(s) == Len(s) \in 7..32 /\ \A k \in 1..Len(s) : s[k] \in RefChars

\* C11: isValidBNS answers every name, and answers true exactly for the names of
\* 7 to 32 characters made of digits, lowercase ASCII letters and hyphens.
C11_ValidatorIsReference ==
    vResult # "none"
        => /\ vResult \in {"valid", "invalid"}
           /\ (vResult = "valid") <=> RefValid(vName)

C11_Witness ==
    /\ vResult = "valid"
    /\ Len(vName) = 32
    /\ "-" \in Range(vName)

\* C12 as stated: a register request for "shortnm" is refused as too short: it
\* ends with the name error and sends nothing.
C12_ShortnmRejected ==
    (ran = {"register"} /\ outcome # "ContractError" /\ bnsName = NameShortnm)
        => /\ pc = "done"
           /\ outcome = "InvalidName"
           /\ Sends = 0

\* C12 as amended: a register request for a name of fewer than 7 characters
\* ("shortn") is refused as too short: it ends with the name error, sends
\* nothing and never waits.
C12_ShortNameRejected ==
    (ran = {"register"} /\ outcome # "ContractError" /\ Len(bnsName) < MinNameLen)
        => /\ pc = "done"
           /\ outcome = "InvalidName"
           /\ Sends = 0
           /\ ~waitEntered

C12_Witness ==
    /\ ran = {"register"}
    /\ bnsName = NameShort
    /\ cfg.register = NameShort \o Eq \o AddrText("2")
    /\ pc = "done"
    /\ outcome = "InvalidName"

(***************************************************************************)
(* C13: a mutation is reported Confirmed only if the resolver read the     *)
(* waiter just performed succeeded and returned the awaited value (the     *)
(* target address for register, the new owner for transfer, the zero       *)
(* address for unregister); a failed read never confirms.                   *)
(***************************************************************************)
Awaited == IF cond = "ownerFree" THEN ZeroAddr ELSE bnsAddr

C13_ConfirmedOnlyBySuccessfulRead ==
    (pc = "done" /\ outcome = "Confirmed")
        => /\ ~confirmedBy.err
           /\ confirmedBy.addr = Awaited

(***************************************************************************)
(* C14: height-gated polling.  Once the condition has been evaluated, the  *)
(* waiter is back at the top of the loop, about to evaluate again, only    *)
(* after a height read returned a value different from the one read before *)
(* the earlier evaluation; and the 100 ms pause is taken only after a      *)
(* height read that returned the unchanged value.                          *)
(***************************************************************************)
C14_HeightGatedPolling ==
    /\ (pc = "w_top" /\ evals > 0) => heightChanged
    /\ (pc = "w_sleep") => (~heightChanged /\ evals = i + 1)

C14_Witness ==
    /\ pc = "w_sleep"
    /\ evals = 2
    /\ ~heightChanged

(***************************************************************************)
(* C15: bounded budget and immediate confirmation.  A run of wait()        *)
(* evaluates its condition at most 6000 times; an evaluation that returns  *)
(* true ends the run at once with Confirmed, so that while the waiter is   *)
(* still running every evaluation so far was false; TimedOut is reported   *)
(* only after exactly 6000 evaluations, the last of them false like all    *)
(* the others.                                                              *)
(***************************************************************************)
C15_BoundedBudgetImmediateConfirm ==
    /\ evals <= WaitBudget
    /\ condResult => (pc = "done" /\ outcome = "Confirmed" /\ evals = i + 1)
    /\ (outcome = "Confirmed") => condResult
    /\ (outcome = "TimedOut") => (pc = "done" /\ evals = WaitBudget /\ ~condResult)

C15_Witness ==
    /\ pc = "done"
    /\ outcome = "TimedOut"
    /\ evals = WaitBudget

(***************************************************************************)
(* C16: fresh sequence number.  Whenever a transaction is submitted, the   *)
(* last ledger read made before it is the account-nonce read: the nonce is *)
(* read after the precondition resolver read, with no other read between   *)
(* it and the construction of the transaction.                             *)
(***************************************************************************)
C16_NonceReadLast ==
    [][(Len(sentTx') > Len(sentTx)) => (lastRead = "nonce")]_vars

(***************************************************************************)
(* C17: transfer precondition.  A transfer transaction is submitted only   *)
(* if the owner read succeeded and returned the caller's address; a        *)
(* resolved owner equal to the new owner ends with AlreadySatisfied and    *)
(* any other resolved owner that is not the caller with Conflict, both     *)
(* without a submission.                                                    *)
(***************************************************************************)
C17_TransferPrecondition ==
    /\ (\E k \in 1..Len(sentTx) : sentTx[k].call = "transfer")
           => (~resolved.err /\ resolved.addr = ClientAddr)
    /\ (Prechecked("transfer") /\ ~resolved.err /\ resolved.addr = bnsAddr)
           => (pc = "done" /\ outcome = "AlreadySatisfied" /\ Sends = 0)
    /\ (Prechecked("transfer") /\ ~resolved.err /\ resolved.addr \notin {ClientAddr, bnsAddr})
           => (pc = "done" /\ outcome = "Conflict" /\ Sends = 0)

(***************************************************************************)
(* C18: a register or transfer request whose address part cannot be        *)
(* decoded is reported as an error without any account-nonce read, any     *)
(* resolver read or any submission having been made.                       *)
(***************************************************************************)
C18_MalformedAddressNoNetwork ==
    (pc = "done" /\ outcome = "InvalidAddress")
        => /\ retErr
           /\ calls.nonce = 0
           /\ calls.resolve = 0
           /\ calls.owner = 0
           /\ Sends = 0

(***************************************************************************)
(* C20: bnsHandler returns a non-nil error whenever the invocation ends    *)
(* with a usage error, an unknown block peak, an invalid name, an          *)
(* already-satisfied or conflict decision, or a failed submission; it      *)
(* returns nil only after a completed lookup or after a mutation whose     *)
(* transaction was accepted.                                               *)
(***************************************************************************)
ErrorOutcomes ==
    {"UsageError", "NoBlockPeak", "InvalidName", "AlreadySatisfied", "Conflict", "AlreadyFree",
     "SubmitFailed"}

C20_ErrorReturnedToCaller ==
    (pc = "done")
        => /\ (outcome \in ErrorOutcomes) => retErr
           /\ (~retErr) => (outcome = "LookupDone" \/ waitEntered)

(***************************************************************************)
(* C19: racing invocations.  When two invocations race for one name and    *)
(* the ledger applies only one of the two transactions, the invocation     *)
(* whose transaction was rejected ends with a Conflict or Failed outcome   *)
(* and has submitted no more than once.                                    *)
(***************************************************************************)
C19_RaceLoserSeesConflict ==
    \A p \in Procs :
        (p \in rejected)
            => /\ procSends[p] <= 1
               /\ (procPc[p] = "done") => (procOutcome[p] \in {"Conflict", "SubmitFailed"})
====
